---- MODULE Spec2Model ----
(***************************************************************************)
(* The auction bidding engine of src/lib/db.ts: the in-memory stores       *)
(* (teams, players, auctions, activities, bidLocks) and the operations     *)
(* createAuction, placeBid and completeAuction.                            *)
(*                                                                         *)
(* Amounts are crores; the model draws them from whole numbers, where the  *)
(* arithmetic of the source (IEEE doubles) is exact.                       *)
(*                                                                         *)
(* placeBid is declared async but contains no await: a call runs from its  *)
(* lock test to its finally block inside one turn of the event loop, so    *)
(* one call is one action.  The lock map is still modelled as the code     *)
(* uses it (test, set, delete in finally).                                 *)
(***************************************************************************)
EXTENDS Integers, Sequences, FiniteSets, TLC

\* ---------------------------------------------------------------- bounds
\* Date.now() runs over 1..MaxTime
MaxTime == 2
\* number of store-changing operations explored (each adds one activity)
MaxOps == 6
\* number of seeded players auctioned in a season run
SeasonPlayers == 35
\* timerDuration of an auction in seconds (route.ts passes 60)
TimerDuration == 2
\* number of connections to GET /api/auction/live
MaxStreams == 1
\* number of createAuction, placeBid and operator completeAuction calls that
\* change the store while streams are observed
LiveOps == 3

\* ------------------------------------------------------- program constants
\* totalPurse / remainingPurse of every seeded team
SeedPurse == 100
\* maxPlayers of every seeded team
SeedMaxPlayers == 25
\* capacity of the activity log
ActivityCap == 100

\* ------------------------------------------------------------- universes
\* two of the ten seeded teams, two of the hundred seeded players
Teams == {"MI", "CSK"}
Players == {"P001", "P002"}
\* ids a caller may pass: the seeded ones and one that is in no store
UnknownId == "nobody"
TeamArgs == Teams \cup {UnknownId}
PlayerArgs == Players \cup {UnknownId}
\* an auction id is "AUC-" followed by Date.now(); the model keeps the number
AuctionIds == 1..MaxTime
\* one seeding generatePlayers can produce (it draws base prices in 0.5 .. 15.5)
seedBasePrice == [p \in Players |-> IF p = "P001" THEN 5 ELSE 10]
\* amounts a caller may bid: 10 is the base price of P002 and above that of
\* P001; 100 equals a full purse, so two such bids together exceed it
BidAmounts == {10, 100}

Undefined == "undefined"

\* teams, players, auctions, activities, bidLocks: the stores of db.ts;
\* now: the value Date.now() returns;
\* last: the most recent operation and what it returned to its caller;
\* streams: the open and closed responses of GET /api/auction/live;
\* client: one browser page showing LiveBidComponent
VARIABLES teams, players, auctions, activities, bidLocks, now, last, streams, client
vars == <<teams, players, auctions, activities, bidLocks, now, last, streams, client>>

\* the stores of db.ts as one value, so that operations compose
Store == [teams |-> teams, players |-> players, auctions |-> auctions,
          activities |-> activities, bidLocks |-> bidLocks]

\* --------------------------------------------------------------- helpers
\* variant of addActivity that removes the head (shift) when over capacity
addActivity_EvictsNewest(acts, activity) ==
    LET grown == <<activity>> \o acts
    IN  IF Len(grown) > ActivityCap THEN SubSeq(grown, 2, Len(grown)) ELSE grown

\* db.ts addActivity: unshift, then pop when longer than 100
addActivity(acts, activity) ==
    LET grown == <<activity>> \o acts
    IN  IF Len(grown) > ActivityCap THEN SubSeq(grown, 1, Len(grown) - 1) ELSE grown

\* db.ts updateTeamPurse: no-op when the team is absent
updateTeamPurse(ts, teamId, newPurse) ==
    IF teamId \in DOMAIN ts
    THEN [ts EXCEPT ![teamId].remainingPurse = newPurse]
    ELSE ts

\* variant of addPlayerToTeam that pushes nothing
addPlayerToTeam_NoPush(ts, teamId, playerId) == ts

\* variant of addPlayerToTeam that puts the player at the head of the roster
addPlayerToTeam_Unshift(ts, teamId, playerId) ==
    IF teamId \in DOMAIN ts
    THEN [ts EXCEPT ![teamId].players = <<playerId>> \o @]
    ELSE ts

\* db.ts addPlayerToTeam: the roster holds the store's player object,
\* modelled as its id (fields are read through the players store)
addPlayerToTeam(ts, teamId, playerId) ==
    IF teamId \in DOMAIN ts
    THEN [ts EXCEPT ![teamId].players = Append(@, playerId)]
    ELSE ts

\* variant of updatePlayerStatus that leaves soldPrice as it was
updatePlayerStatus_DropsSoldPrice(ps, playerId, status, teamId, soldPrice) ==
    IF playerId \in DOMAIN ps
    THEN [ps EXCEPT ![playerId].status = status, ![playerId].teamId = teamId]
    ELSE ps

\* db.ts updatePlayerStatus: status, teamId and soldPrice are all assigned
updatePlayerStatus(ps, playerId, status, teamId, soldPrice) ==
    IF playerId \in DOMAIN ps
    THEN [ps EXCEPT ![playerId].status = status,
                    ![playerId].teamId = teamId,
                    ![playerId].soldPrice = soldPrice]
    ELSE ps

\* ---------------------------------------------------------- createAuction
\* variant of line 244 that turns away only unknown and Sold players
notAuctionable_AllowsLive(ps, playerId) ==
    playerId \notin DOMAIN ps \/ ps[playerId].status = "Sold"

\* variant of line 244 that turns away only unknown and Live players
notAuctionable_AllowsSold(ps, playerId) ==
    playerId \notin DOMAIN ps \/ ps[playerId].status = "Live"

\* db.ts createAuction line 244: the player is unknown or not Unsold
notAuctionable(ps, playerId) ==
    playerId \notin DOMAIN ps \/ ps[playerId].status # "Unsold"

\* db.ts createAuction(playerId, timerDuration) at clock value t
createAuction(st, playerId, t) ==
    IF notAuctionable(st.players, playerId)
    THEN [st |-> st, success |-> FALSE, auctionId |-> Undefined]
    ELSE
      LET auction == [playerId |-> playerId,
                      currentBid |-> st.players[playerId].basePrice,
                      currentBidder |-> Undefined,
                      bids |-> << >>,
                      status |-> "live",
                      startTime |-> t,
                      timerDuration |-> TimerDuration,
                      endTime |-> Undefined]
          auctions1 == [id \in (DOMAIN st.auctions) \cup {t} |->
                           IF id = t THEN auction ELSE st.auctions[id]]
          players1 == updatePlayerStatus(st.players, playerId, "Live", Undefined, Undefined)
          acts1 == addActivity(st.activities,
                     [type |-> "auction_start", teamId |-> Undefined,
                      playerId |-> playerId, amount |-> Undefined])
      IN [st |-> [st EXCEPT !.auctions = auctions1, !.players = players1,
                            !.activities = acts1],
          success |-> TRUE, auctionId |-> t]

\* ---------------------------------------------------------------- placeBid
ErrBusy == "Another bid is being processed. Please try again."
ErrNoAuction == "Auction not found"
ErrNotLive == "Auction is not active"
ErrNoTeam == "Team not found"
ErrTooLow == "Bid must be higher than current bid"
ErrPurse == "Insufficient purse remaining"
NoError == "none"

\* variant of lines 297-299 with one lock for all auctions
lockHeld_AnyAuction(locks, auctionId) == locks # {}

\* db.ts placeBid line 297: the lock test
lockHeld(locks, auctionId) == auctionId \in locks

\* db.ts placeBid line 301: bidLocks.set(auctionId, true)
acquireLock(locks, auctionId) == locks \cup {auctionId}

\* db.ts placeBid lines 359-362: the finally block, run on every exit of the try
releaseLock(locks, auctionId) == locks \ {auctionId}

\* variant of line 322 with < for <=: a bid equal to the current bid passes
bidTooLow_AcceptsEqual(amount, auction) == amount < auction.currentBid

\* db.ts placeBid line 322
bidTooLow(amount, auction) == amount <= auction.currentBid

\* db.ts placeBid line 327
purseTooSmall(amount, team) == amount > team.remainingPurse

\* variant of lines 305-329 that tests the team (fetched first, line 306)
\* before the auction
bidError_TeamFirst(st, auctionId, teamId, amount) ==
    IF teamId \notin DOMAIN st.teams THEN ErrNoTeam
    ELSE IF auctionId \notin DOMAIN st.auctions THEN ErrNoAuction
    ELSE IF st.auctions[auctionId].status # "live" THEN ErrNotLive
    ELSE IF bidTooLow(amount, st.auctions[auctionId]) THEN ErrTooLow
    ELSE IF purseTooSmall(amount, st.teams[teamId]) THEN ErrPurse
    ELSE NoError

\* db.ts placeBid lines 305-329: the checks of the try block, in code order
bidError(st, auctionId, teamId, amount) ==
    IF auctionId \notin DOMAIN st.auctions THEN ErrNoAuction
    ELSE IF st.auctions[auctionId].status # "live" THEN ErrNotLive
    ELSE IF teamId \notin DOMAIN st.teams THEN ErrNoTeam
    ELSE IF bidTooLow(amount, st.auctions[auctionId]) THEN ErrTooLow
    ELSE IF purseTooSmall(amount, st.teams[teamId]) THEN ErrPurse
    ELSE NoError

\* variant of lines 342-345 that leaves currentBidder as it was
applyBid_StaleLeader(st, auctionId, teamId, amount) ==
    LET bid == [teamId |-> teamId, amount |-> amount]
        auction == st.auctions[auctionId]
    IN [st EXCEPT
          !.auctions = [@ EXCEPT ![auctionId] =
                           [auction EXCEPT !.bids = Append(@, bid),
                                           !.currentBid = amount]],
          !.activities = addActivity(@,
                           [type |-> "bid", teamId |-> teamId,
                            playerId |-> auction.playerId, amount |-> amount])]

\* variant of lines 331-356 that also takes the amount from the bidder's purse
applyBid_DeductsPurse(st, auctionId, teamId, amount) ==
    LET bid == [teamId |-> teamId, amount |-> amount]
        auction == st.auctions[auctionId]
    IN [st EXCEPT
          !.auctions = [@ EXCEPT ![auctionId] =
                           [auction EXCEPT !.bids = Append(@, bid),
                                           !.currentBid = amount,
                                           !.currentBidder = teamId]],
          !.teams = updateTeamPurse(@, teamId, @[teamId].remainingPurse - amount),
          !.activities = addActivity(@,
                           [type |-> "bid", teamId |-> teamId,
                            playerId |-> auction.playerId, amount |-> amount])]

\* variant of lines 331-356 that records no activity
applyBid_NoActivity(st, auctionId, teamId, amount) ==
    LET bid == [teamId |-> teamId, amount |-> amount]
        auction == st.auctions[auctionId]
    IN [st EXCEPT
          !.auctions = [@ EXCEPT ![auctionId] =
                           [auction EXCEPT !.bids = Append(@, bid),
                                           !.currentBid = amount,
                                           !.currentBidder = teamId]]]

\* db.ts placeBid lines 331-356: the bid is appended, the leader updated,
\* one bid activity added
applyBid(st, auctionId, teamId, amount) ==
    LET bid == [teamId |-> teamId, amount |-> amount]
        auction == st.auctions[auctionId]
    IN [st EXCEPT
          !.auctions = [@ EXCEPT ![auctionId] =
                           [auction EXCEPT !.bids = Append(@, bid),
                                           !.currentBid = amount,
                                           !.currentBidder = teamId]],
          !.activities = addActivity(@,
                           [type |-> "bid", teamId |-> teamId,
                            playerId |-> auction.playerId, amount |-> amount])]

\* variant of lines 303-362 without the finally: the lock is released on the
\* success path only
bidBody_NoFinally(st, auctionId, teamId, amount) ==
    LET err == bidError(st, auctionId, teamId, amount)
    IN IF err = NoError
       THEN [st |-> [applyBid(st, auctionId, teamId, amount)
                       EXCEPT !.bidLocks = releaseLock(@, auctionId)],
             success |-> TRUE, error |-> err]
       ELSE [st |-> st, success |-> FALSE, error |-> err]

\* variant of lines 303-362 that records the bid before the purse check
bidBody_BidBeforePurseCheck(st, auctionId, teamId, amount) ==
    LET err == bidError(st, auctionId, teamId, amount)
        st1 == IF err \in {NoError, ErrPurse}
               THEN applyBid(st, auctionId, teamId, amount) ELSE st
    IN [st |-> [st1 EXCEPT !.bidLocks = releaseLock(@, auctionId)],
        success |-> (err = NoError), error |-> err]

\* db.ts placeBid lines 303-362: try { checks; mutation } finally { release }
bidBody(st, auctionId, teamId, amount) ==
    LET err == bidError(st, auctionId, teamId, amount)
        st1 == IF err = NoError THEN applyBid(st, auctionId, teamId, amount) ELSE st
    IN [st |-> [st1 EXCEPT !.bidLocks = releaseLock(@, auctionId)],
        success |-> (err = NoError), error |-> err]

\* db.ts placeBid, the whole call
placeBid(st, auctionId, teamId, amount) ==
    IF lockHeld(st.bidLocks, auctionId)
    THEN [st |-> st, success |-> FALSE, error |-> ErrBusy]
    ELSE bidBody([st EXCEPT !.bidLocks = acquireLock(@, auctionId)],
                 auctionId, teamId, amount)

\* ---------------------------------------------------------- completeAuction
\* variant of line 380 that starts from totalPurse
purseAfterWin_FromTotal(team, auction) == team.totalPurse - auction.currentBid

\* db.ts completeAuction line 380: the purse handed to updateTeamPurse
purseAfterWin(team, auction) == team.remainingPurse - auction.currentBid

\* variant of line 367 that tests only that the auction exists
notSettleable_ExistsOnly(as, auctionId) == auctionId \notin DOMAIN as

\* db.ts completeAuction line 367: the auction is unknown or not live
notSettleable(as, auctionId) ==
    auctionId \notin DOMAIN as \/ as[auctionId].status # "live"

\* variant of line 374 that tests the bid array, which is always truthy
hasLeader_BidsArray(auction) == auction.bids = auction.bids

\* db.ts completeAuction line 374: the auction has a leading bidder
hasLeader(auction) == auction.currentBidder # Undefined

\* db.ts completeAuction(auctionId) at clock value t
completeAuction(st, auctionId, t) ==
    IF notSettleable(st.auctions, auctionId)
    THEN [st |-> st, success |-> FALSE]
    ELSE
      LET auction == st.auctions[auctionId]
          auctions1 == [st.auctions EXCEPT ![auctionId].status = "completed",
                                          ![auctionId].endTime = t]
          bidder == auction.currentBidder
      IN IF hasLeader(auction)
         THEN LET players1 == updatePlayerStatus(st.players, auction.playerId, "Sold",
                                                 bidder, auction.currentBid)
              IN IF bidder \in DOMAIN st.teams
                 THEN LET teams1 == updateTeamPurse(st.teams, bidder,
                                       purseAfterWin(st.teams[bidder], auction))
                          teams2 == addPlayerToTeam(teams1, bidder, auction.playerId)
                          acts1 == addActivity(st.activities,
                                     [type |-> "win", teamId |-> bidder,
                                      playerId |-> auction.playerId,
                                      amount |-> auction.currentBid])
                      IN [st |-> [st EXCEPT !.auctions = auctions1, !.players = players1,
                                            !.teams = teams2, !.activities = acts1],
                          success |-> TRUE]
                 ELSE [st |-> [st EXCEPT !.auctions = auctions1, !.players = players1],
                       success |-> TRUE]
         ELSE LET players1 == updatePlayerStatus(st.players, auction.playerId, "Unsold",
                                                 Undefined, Undefined)
                  acts1 == addActivity(st.activities,
                             [type |-> "auction_end", teamId |-> Undefined,
                              playerId |-> auction.playerId, amount |-> Undefined])
              IN [st |-> [st EXCEPT !.auctions = auctions1, !.players = players1,
                                    !.activities = acts1],
                  success |-> TRUE]

\* LiveBidComponent: the 'Mark as Unsold' button runs handleCompleteAuction,
\* which calls completeAuctionAction, which calls completeAuction
markAsUnsold(st, auctionId, t) == completeAuction(st, auctionId, t)

\* ------------------------------------------------------------------ client
\* what LiveBidComponent shows of an auction held in its query cache
viewOf(auction) ==
    [status |-> auction.status, currentBid |-> auction.currentBid,
     currentBidder |-> auction.currentBidder, bids |-> auction.bids]

\* the cache entry of a page that shows no auction
noView == [status |-> "none", currentBid |-> 0, currentBidder |-> Undefined,
           bids |-> << >>]

\* no page is open
noClient ==
    [phase |-> "closed", auctionId |-> 0, cache |-> noView, previous |-> noView,
     purses |-> [t \in Teams |-> 0], teamId |-> Undefined, amount |-> 0,
     result |-> [success |-> FALSE, data |-> noView]]

\* bidMutation onMutate: the cached auction with the submitted bid on top
optimisticAuction(previousAuction, teamId, amount) ==
    [previousAuction EXCEPT !.currentBid = amount, !.currentBidder = teamId]

\* ------------------------------------------------------------------- state
\* db.ts initializeDatabase: seeded teams with empty rosters, seeded players
\* Unsold with a generated base price, no auction, no activity, no lock
Init ==
    /\ teams = [t \in Teams |-> [totalPurse |-> SeedPurse, remainingPurse |-> SeedPurse,
                                 maxPlayers |-> SeedMaxPlayers, players |-> << >>]]
    /\ players = [p \in Players |-> [basePrice |-> seedBasePrice[p], status |-> "Unsold",
                                     teamId |-> Undefined, soldPrice |-> Undefined]]
    /\ auctions = << >>
    /\ activities = << >>
    /\ bidLocks = {}
    /\ now = 1
    /\ last = [op |-> "init"]
    /\ streams = << >>
    /\ client = noClient

Install(st) ==
    /\ teams' = st.teams
    /\ players' = st.players
    /\ auctions' = st.auctions
    /\ activities' = st.activities
    /\ bidLocks' = st.bidLocks

\* n more store-changing operations fit into the explored depth
Budget(n) == Len(activities) + n <= MaxOps

\* the clock of Date.now() moves on
Tick ==
    /\ now < MaxTime
    /\ now' = now + 1
    /\ last' = [op |-> "tick"]
    /\ UNCHANGED <<teams, players, auctions, activities, bidLocks, streams, client>>

\* a caller (POST /api/auction/create) invokes createAuction
CreateAuction(playerId) ==
    /\ Budget(1)
    /\ LET r == createAuction(Store, playerId, now)
       IN /\ Install(r.st)
          /\ last' = [op |-> "createAuction", success |-> r.success]
    /\ UNCHANGED <<now, streams, client>>

\* a caller (placeBidAction) invokes placeBid and awaits its result
PlaceBid(auctionId, teamId, amount) ==
    /\ Budget(1)
    /\ LET r == placeBid(Store, auctionId, teamId, amount)
       IN /\ Install(r.st)
          /\ last' = [op |-> "placeBid", success |-> r.success, error |-> r.error]
    /\ UNCHANGED <<now, streams, client>>

\* a caller (completeAuctionAction, or a stream's timer) invokes completeAuction
CompleteAuction(auctionId) ==
    /\ Budget(1)
    /\ LET r == completeAuction(Store, auctionId, now)
       IN /\ Install(r.st)
          /\ last' = [op |-> "completeAuction", success |-> r.success]
    /\ UNCHANGED <<now, streams, client>>

\* the documented unit test 'should prevent race conditions': both calls are
\* started in one turn (the array literal), then Promise.all awaits them
PlaceBidAll(auctionId, team1, amount1, team2, amount2) ==
    /\ Budget(2)
    /\ LET r1 == placeBid(Store, auctionId, team1, amount1)
           r2 == placeBid(r1.st, auctionId, team2, amount2)
       IN /\ Install(r2.st)
          /\ last' = [op |-> "placeBidAll",
                      eachValid |-> /\ placeBid(Store, auctionId, team1, amount1).success
                                    /\ placeBid(Store, auctionId, team2, amount2).success,
                      successful |-> Cardinality({i \in 1..2 : <<r1, r2>>[i].success}),
                      errors |-> <<r1.error, r2.error>>]
    /\ UNCHANGED <<now, streams, client>>

Next ==
    \/ Tick
    \/ \E p \in PlayerArgs : CreateAuction(p)
    \/ \E a \in AuctionIds, t \in TeamArgs, m \in BidAmounts : PlaceBid(a, t, m)
    \/ \E a \in AuctionIds : CompleteAuction(a)

Spec == Init /\ [][Next]_vars

\* the engine together with the documented unit test as one more caller
NextTest ==
    \/ Next
    \/ \E a \in AuctionIds, t1 \in Teams, t2 \in Teams, m1 \in BidAmounts, m2 \in BidAmounts :
          t1 # t2 /\ m1 < m2 /\ PlaceBidAll(a, t1, m1, t2, m2)

SpecTest == Init /\ [][NextTest]_vars

\* ------------------------------------------------------------ season run
\* A long run of the same operations: the operator auctions the seeded
\* players in list order, one per clock tick, one team bids on each, and the
\* auction is settled once it has a bid. Player ids are kept as their index.
SeasonIds == 1..SeasonPlayers
\* a base price generatePlayers can draw, the same for every player
seasonBasePrice == 1
\* the bidding team
SeasonTeam == "MI"
\* amounts bid: the base price (too low) and the next whole amount
SeasonBids == {seasonBasePrice, seasonBasePrice + 1}
\* ids the operator passes: the current player or auction and the one before
SeasonRecent == {now - 1, now} \cap SeasonIds

InitSeason ==
    /\ teams = [t \in Teams |-> [totalPurse |-> SeedPurse, remainingPurse |-> SeedPurse,
                                 maxPlayers |-> SeedMaxPlayers, players |-> << >>]]
    /\ players = [p \in SeasonIds |-> [basePrice |-> seasonBasePrice, status |-> "Unsold",
                                       teamId |-> Undefined, soldPrice |-> Undefined]]
    /\ auctions = << >>
    /\ activities = << >>
    /\ bidLocks = {}
    /\ now = 1
    /\ last = [op |-> "init"]
    /\ streams = << >>
    /\ client = noClient

\* the clock moves on once the auction of this tick is settled
SeasonTick ==
    /\ now < SeasonPlayers
    /\ now \in DOMAIN auctions
    /\ auctions[now].status = "completed"
    /\ now' = now + 1
    /\ last' = [op |-> "tick"]
    /\ UNCHANGED <<teams, players, auctions, activities, bidLocks, streams, client>>

SeasonCreate(playerId) ==
    /\ playerId \in SeasonRecent
    /\ LET r == createAuction(Store, playerId, now)
       IN /\ Install(r.st)
          /\ last' = [op |-> "createAuction", success |-> r.success]
    /\ UNCHANGED <<now, streams, client>>

SeasonBid(teamId, amount) ==
    /\ LET r == placeBid(Store, now, teamId, amount)
       IN /\ Install(r.st)
          /\ last' = [op |-> "placeBid", success |-> r.success, error |-> r.error]
    /\ UNCHANGED <<now, streams, client>>

SeasonSettle(auctionId) ==
    /\ auctionId \in SeasonRecent
    /\ auctionId \in DOMAIN auctions => auctions[auctionId].bids # << >>
    /\ LET r == completeAuction(Store, auctionId, now)
       IN /\ Install(r.st)
          /\ last' = [op |-> "completeAuction", success |-> r.success]
    /\ UNCHANGED <<now, streams, client>>

NextSeason ==
    \/ SeasonTick
    \/ \E p \in SeasonIds : SeasonCreate(p)
    \/ \E t \in {SeasonTeam, UnknownId}, m \in SeasonBids : SeasonBid(t, m)
    \/ \E a \in SeasonIds : SeasonSettle(a)

SpecSeason == InitSeason /\ [][NextSeason]_vars

\* ------------------------------------------------------------ client page
\* page.tsx renders LiveBidComponent with the stored auction and the teams
ClientOpen(auctionId) ==
    /\ client.phase = "closed"
    /\ auctionId \in DOMAIN auctions
    /\ client' = [client EXCEPT
                    !.phase = "idle",
                    !.auctionId = auctionId,
                    !.cache = viewOf(auctions[auctionId]),
                    !.purses = [t \in Teams |-> teams[t].remainingPurse]]
    /\ UNCHANGED <<teams, players, auctions, activities, bidLocks, now, last, streams>>

\* useQuery refetch, or the onmessage handler on auction_update: the cache
\* takes the stored auction
ClientRefetch ==
    /\ client.phase # "closed"
    /\ client.cache # viewOf(auctions[client.auctionId])
    /\ client' = [client EXCEPT
                    !.cache = viewOf(auctions[client.auctionId]),
                    !.phase = IF @ \in {"pending", "answered"} THEN @ ELSE "idle"]
    /\ UNCHANGED <<teams, players, auctions, activities, bidLocks, now, last, streams>>

\* handlePlaceBid with the submit button enabled, then bidMutation onMutate
ClientSubmit(teamId, amount) ==
    /\ client.phase \in {"idle", "accepted", "rejected", "failed"}
    /\ client.cache.status = "live"
    /\ client.purses[teamId] >= amount
    /\ amount > client.cache.currentBid
    /\ client' = [client EXCEPT
                    !.phase = "pending",
                    !.previous = client.cache,
                    !.cache = optimisticAuction(client.cache, teamId, amount),
                    !.teamId = teamId,
                    !.amount = amount]
    /\ UNCHANGED <<teams, players, auctions, activities, bidLocks, now, last, streams>>

\* mutationFn: placeBidAction runs on the server and answers
ClientServerCall ==
    /\ client.phase = "pending"
    /\ Budget(1)
    /\ LET r == placeBid(Store, client.auctionId, client.teamId, client.amount)
       IN /\ Install(r.st)
          /\ last' = [op |-> "placeBid", success |-> r.success, error |-> r.error]
          /\ client' = [client EXCEPT
                          !.phase = "answered",
                          !.result = [success |-> r.success,
                                      data |-> viewOf(r.st.auctions[client.auctionId])]]
    /\ UNCHANGED <<now, streams>>

\* bidMutation onSuccess: the answer has arrived; placeBidAction returns
\* success = false as a value, it does not throw
ClientOnSuccess ==
    /\ client.phase = "answered"
    /\ client' = IF client.result.success
                 THEN [client EXCEPT !.phase = "accepted", !.cache = client.result.data]
                 ELSE [client EXCEPT !.phase = "rejected"]
    /\ UNCHANGED <<teams, players, auctions, activities, bidLocks, now, last, streams>>

\* bidMutation onError: the call itself failed (mutationFn threw)
ClientOnError ==
    /\ client.phase \in {"pending", "answered"}
    /\ client' = [client EXCEPT !.phase = "failed", !.cache = client.previous]
    /\ UNCHANGED <<teams, players, auctions, activities, bidLocks, now, last, streams>>

\* the page next to the other callers of the engine: one auction, of the
\* first player, at one clock value
NextClient ==
    \/ CreateAuction("P001")
    \/ \E t \in Teams, m \in BidAmounts : PlaceBid(now, t, m)
    \/ CompleteAuction(now)
    \/ ClientOpen(now)
    \/ ClientRefetch
    \/ \E t \in Teams, m \in BidAmounts : ClientSubmit(t, m)
    \/ ClientServerCall
    \/ ClientOnSuccess
    \/ ClientOnError

SpecClient == Init /\ [][NextClient]_vars

\* ------------------------------------------------------------ live streams
\* One clock unit is the period of setInterval (1000 ms) and the resolution
\* of Date.now(). A stream is the closure of one GET: its auctionId, the
\* auction object it fetched (orphan holds that object once createAuction has
\* put another one under the same id), its timeRemaining counter, whether the
\* intervals run and the controller is open, which interval callback is due
\* next and when, and what it has enqueued: the last auction sent, the last
\* event type, the number of auction_end events with the status carried, the
\* clock value of the last timer_update, and what closed it.
LiveMaxTime == MaxTime + TimerDuration

\* n more store-changing calls fit into the explored depth
LiveBudget(n) == Len(activities) + n <= LiveOps

\* the auction object held by the closure of stream s
captured(s) == IF s.orphan = << >> THEN auctions[s.auctionId] ELSE s.orphan[1]

\* GET: 404 without a stored auction; else the first auction_update is sent,
\* timeRemaining starts at timerDuration and both intervals are set
LiveConnect(auctionId) ==
    /\ Len(streams) < MaxStreams
    /\ now + TimerDuration <= LiveMaxTime
    /\ auctionId \in DOMAIN auctions
    /\ streams' = Append(streams,
          [auctionId |-> auctionId, orphan |-> << >>,
           timeRemaining |-> auctions[auctionId].timerDuration,
           open |-> TRUE, step |-> "timer", at |-> now + 1,
           sent |-> viewOf(auctions[auctionId]), lastEvent |-> "auction_update",
           ended |-> 0, endStatus |-> "none", timerAt |-> 0, closedBy |-> "none"])
    /\ UNCHANGED <<teams, players, auctions, activities, bidLocks, now, last, client>>

\* the timerInterval callback of stream i
StreamTimer(i) ==
    /\ i \in DOMAIN streams
    /\ streams[i].open
    /\ streams[i].step = "timer"
    /\ streams[i].at <= now
    /\ LET s == streams[i]
           timeRemaining == s.timeRemaining - 1
           r == completeAuction(Store, s.auctionId, now)
           carried == IF r.success THEN r.st.auctions[s.auctionId] ELSE captured(s)
       IN IF timeRemaining <= 0
          THEN /\ Install(r.st)
               /\ streams' = [streams EXCEPT ![i] =
                     [s EXCEPT !.timeRemaining = timeRemaining, !.timerAt = now,
                               !.open = FALSE, !.closedBy = "timer",
                               !.sent = viewOf(carried), !.lastEvent = "auction_end",
                               !.ended = @ + 1, !.endStatus = carried.status]]
          ELSE /\ streams' = [streams EXCEPT ![i] =
                     [s EXCEPT !.timeRemaining = timeRemaining, !.timerAt = now,
                               !.lastEvent = "timer_update", !.step = "poll"]]
               /\ UNCHANGED <<teams, players, auctions, activities, bidLocks>>
    /\ UNCHANGED <<now, last, client>>

\* the pollInterval callback of stream i
StreamPoll(i) ==
    /\ i \in DOMAIN streams
    /\ streams[i].open
    /\ streams[i].step = "poll"
    /\ streams[i].at <= now
    /\ LET s == streams[i]
           updatedAuction == auctions[s.auctionId]
       IN streams' = [streams EXCEPT ![i] =
            IF updatedAuction.status = "completed"
            THEN [s EXCEPT !.sent = viewOf(updatedAuction), !.lastEvent = "auction_end",
                           !.open = FALSE, !.closedBy = "poll",
                           !.ended = @ + 1, !.endStatus = updatedAuction.status]
            ELSE [s EXCEPT !.sent = viewOf(updatedAuction), !.lastEvent = "auction_update",
                           !.step = "timer", !.at = @ + 1]]
    /\ UNCHANGED <<teams, players, auctions, activities, bidLocks, now, last, client>>

\* the abort listener of stream i: the client went away
StreamAbort(i) ==
    /\ i \in DOMAIN streams
    /\ streams[i].open
    /\ streams' = [streams EXCEPT ![i] = [@ EXCEPT !.open = FALSE, !.closedBy = "abort"]]
    /\ UNCHANGED <<teams, players, auctions, activities, bidLocks, now, last, client>>

\* createAuction while streams run: a stream whose auction object is
\* replaced in the map keeps the object it fetched
LiveCreate(playerId) ==
    /\ now <= MaxTime
    /\ LiveBudget(1)
    /\ LET r == createAuction(Store, playerId, now)
       IN /\ Install(r.st)
          /\ streams' = [i \in DOMAIN streams |->
                IF /\ r.success
                   /\ streams[i].auctionId = r.auctionId
                   /\ streams[i].orphan = << >>
                THEN [streams[i] EXCEPT !.orphan = <<auctions[r.auctionId]>>]
                ELSE streams[i]]
    /\ UNCHANGED <<now, last, client>>

LiveBid(auctionId, teamId, amount) ==
    /\ LiveBudget(1)
    /\ Install(placeBid(Store, auctionId, teamId, amount).st)
    /\ UNCHANGED <<now, last, streams, client>>

\* the operator completes the auction
LiveComplete(auctionId) ==
    /\ LiveBudget(1)
    /\ Install(completeAuction(Store, auctionId, now).st)
    /\ UNCHANGED <<now, last, streams, client>>

\* a clock unit passes once every interval callback that is due has run
LiveTick ==
    /\ now < LiveMaxTime
    /\ \A i \in DOMAIN streams : streams[i].open => streams[i].at > now
    /\ now' = now + 1
    /\ UNCHANGED <<teams, players, auctions, activities, bidLocks, last, streams, client>>

StreamIds == 1..MaxStreams

NextLive ==
    \/ LiveTick
    \/ \E p \in Players : LiveCreate(p)
    \/ \E a \in AuctionIds, t \in Teams, m \in BidAmounts : LiveBid(a, t, m)
    \/ \E a \in AuctionIds : LiveComplete(a)
    \/ \E a \in AuctionIds : LiveConnect(a)
    \/ \E i \in StreamIds : StreamTimer(i)
    \/ \E i \in StreamIds : StreamPoll(i)
    \/ \E i \in StreamIds : StreamAbort(i)

SpecLive == Init /\ [][NextLive]_vars

\* setInterval runs a due callback of a running interval, and time passes
LiveFairness ==
    /\ WF_vars(LiveTick)
    /\ \A i \in StreamIds : WF_vars(StreamTimer(i)) /\ WF_vars(StreamPoll(i))

SpecLiveFair == Init /\ [][NextLive]_vars /\ LiveFairness

\* ================================================================= claims
RECURSIVE rosterSpend(_)
\* the sum of soldPrice over the players of a roster
rosterSpend(roster) ==
    IF roster = << >> THEN 0
    ELSE players[Head(roster)].soldPrice + rosterSpend(Tail(roster))

\* the last element of a non-empty sequence
lastOf(seq) == seq[Len(seq)]

\* C1: every team's remainingPurse equals its totalPurse minus the sum of
\* soldPrice over the players in its roster, in every reachable state.
C1_PurseConservation ==
    \A t \in DOMAIN teams :
        teams[t].remainingPurse = teams[t].totalPurse - rosterSpend(teams[t].players)

\* a team has won a player and is the leading bidder of an auction still live
C1_Witness ==
    \E t \in DOMAIN teams, a \in DOMAIN auctions :
        /\ Len(teams[t].players) >= 1
        /\ auctions[a].status = "live"
        /\ auctions[a].currentBidder = t

\* C2: every team's remainingPurse stays within 0 .. totalPurse in every
\* reachable state, also when one team leads several live auctions that are
\* then all settled.
C2_PurseBounds ==
    \A t \in DOMAIN teams :
        /\ 0 <= teams[t].remainingPurse
        /\ teams[t].remainingPurse <= teams[t].totalPurse

\* C4: of two placeBid calls started together on one live auction, each bid
\* valid on its own, exactly one returns success.
C4_ExactlyOneSucceeds ==
    (last.op = "placeBidAll" /\ last.eachValid) => last.successful = 1

\* C5: after any placeBid call has returned, on success or on any rejection
\* path, no lock is held, and no call is ever answered with the
\* bid-in-progress error.
C5_LockReleased ==
    /\ bidLocks = {}
    /\ last.op = "placeBid" => last.error # ErrBusy

\* a call that took the lock has returned through the insufficient-purse path
C5_Witness ==
    /\ last.op = "placeBid"
    /\ ~last.success
    /\ last.error = ErrPurse

\* C6: in every auction the bid amounts are strictly increasing in list order
\* and every one is strictly greater than the player's base price.
C6_MonotonicBids ==
    \A a \in DOMAIN auctions :
        LET b == auctions[a].bids
        IN /\ \A i \in 1..Len(b) : b[i].amount > players[auctions[a].playerId].basePrice
           /\ \A i, j \in 1..Len(b) : i < j => b[i].amount < b[j].amount

\* an auction holds two accepted bids
C6_Witness == \E a \in DOMAIN auctions : Len(auctions[a].bids) >= 2

\* C7: for every auction, with no bids currentBidder is undefined and
\* currentBid is the player's base price; otherwise they are the team and the
\* amount of the last bid; currentBid is never below the base price.
C7_LeaderMirrorsBids ==
    \A a \in DOMAIN auctions :
        LET au == auctions[a]
            base == players[au.playerId].basePrice
        IN /\ au.currentBid >= base
           /\ IF au.bids = << >>
              THEN au.currentBidder = Undefined /\ au.currentBid = base
              ELSE /\ au.currentBidder = lastOf(au.bids).teamId
                   /\ au.currentBid = lastOf(au.bids).amount

\* one auction without bids, another where a second team has overbid the first
C7_Witness ==
    \E a, b \in DOMAIN auctions :
        /\ auctions[a].bids = << >>
        /\ Len(auctions[b].bids) = 2
        /\ auctions[b].bids[1].teamId # auctions[b].bids[2].teamId

\* the error the stated order of checks gives for a call in the current state
firstFailingCheck(auctionId, teamId, amount) ==
    IF auctionId \notin DOMAIN auctions THEN ErrNoAuction
    ELSE IF auctions[auctionId].status # "live" THEN ErrNotLive
    ELSE IF teamId \notin DOMAIN teams THEN ErrNoTeam
    ELSE IF amount <= auctions[auctionId].currentBid THEN ErrTooLow
    ELSE IF amount > teams[teamId].remainingPurse THEN ErrPurse
    ELSE NoError

\* C8: in every reachable state and for every input, placeBid answers with the
\* error of the first failing check in the order auction missing, auction not
\* live, team missing, amount <= currentBid, amount > remainingPurse, and
\* succeeds exactly when no check fails.
C8_ValidationOrder ==
    \A a \in AuctionIds, t \in TeamArgs, m \in BidAmounts :
        LET r == placeBid(Store, a, t, m)
        IN /\ r.error = firstFailingCheck(a, t, m)
           /\ r.success <=> (firstFailingCheck(a, t, m) = NoError)

\* a bid equal to a full purse was accepted, and a call on a completed auction
\* has just been answered as not active
C8_Witness ==
    /\ last.op = "placeBid"
    /\ last.error = ErrNotLive
    /\ \E a \in DOMAIN auctions : auctions[a].status = "completed"
    /\ \E a \in DOMAIN auctions : auctions[a].currentBid = SeedPurse

\* C9: a placeBid call that returns success = false leaves auctions, teams,
\* players and the activity log as they were before the call.
C9_RejectedBidChangesNothing ==
    [][(last'.op = "placeBid" /\ ~last'.success) =>
          /\ auctions' = auctions
          /\ teams' = teams
          /\ players' = players
          /\ activities' = activities]_vars

\* a bid was rejected as too low on an auction that already has a bid
C9_Witness ==
    /\ last.op = "placeBid"
    /\ ~last.success
    /\ last.error = ErrTooLow
    /\ \E a \in DOMAIN auctions :
          auctions[a].status = "live" /\ Len(auctions[a].bids) >= 1

\* the auction a step settles with team t as its leading bidder, if any
settledFor(t) ==
    {a \in DOMAIN auctions :
        /\ auctions[a].status = "live"
        /\ auctions[a].currentBidder = t
        /\ a \in DOMAIN auctions'
        /\ auctions'[a].status = "completed"}

\* C10: a team changes only in a successful completeAuction of an auction it
\* leads, and then its purse drops by exactly currentBid and its roster gains
\* exactly that player; no other step changes any team, and remainingPurse
\* never increases.
C10_PurseOnlyAtSettlement ==
    [][\A t \in DOMAIN teams :
          /\ teams'[t].remainingPurse <= teams[t].remainingPurse
          /\ IF last'.op = "completeAuction" /\ last'.success /\ settledFor(t) # {}
             THEN \E a \in settledFor(t) :
                     /\ teams'[t] = [teams[t] EXCEPT
                           !.remainingPurse = @ - auctions[a].currentBid,
                           !.players = Append(@, auctions[a].playerId)]
             ELSE teams'[t] = teams[t]]_vars

\* a settlement has just sold a player to its leading bidder
C10_Witness ==
    /\ last.op = "completeAuction"
    /\ last.success
    /\ \E t \in DOMAIN teams :
          Len(teams[t].players) >= 1 /\ teams[t].remainingPurse < teams[t].totalPurse

\* an auction of the store that is live
isLive(a) == a \in DOMAIN auctions /\ auctions[a].status = "live"

\* C11: settlement is applied at most once: of any number of completeAuction
\* calls on one auction, at the same or at later clock values, exactly the
\* first call on a live auction succeeds and every later call is rejected and
\* changes nothing; the leading team's purse drops once by currentBid, the
\* player joins its roster once, and one win or auction_end activity is added.
C11_SettledAtMostOnce ==
    \A a \in AuctionIds : \A t2 \in now..MaxTime : \A t3 \in t2..MaxTime :
        LET r1 == completeAuction(Store, a, now)
            r2 == completeAuction(r1.st, a, t2)
            r3 == completeAuction(r2.st, a, t3)
        IN /\ r1.success <=> isLive(a)
           /\ ~isLive(a) => r1.st = Store
           /\ ~r2.success /\ r2.st = r1.st
           /\ ~r3.success /\ r3.st = r1.st
           /\ isLive(a) =>
                 LET au == auctions[a]
                 IN /\ Len(r3.st.activities) = Len(activities) + 1
                    /\ r3.st.activities[1].type \in {"win", "auction_end"}
                    /\ \A t \in DOMAIN teams :
                          r3.st.teams[t] =
                             IF t = au.currentBidder
                             THEN [teams[t] EXCEPT
                                     !.remainingPurse = @ - au.currentBid,
                                     !.players = Append(@, au.playerId)]
                             ELSE teams[t]

\* every auction id holds a settled auction, one of them sold to a team, and
\* a further completeAuction call has just been rejected
C11_Witness ==
    /\ last.op = "completeAuction"
    /\ ~last.success
    /\ DOMAIN auctions = AuctionIds
    /\ \A a \in AuctionIds : auctions[a].status = "completed"
    /\ \E t \in DOMAIN teams : Len(teams[t].players) = 1

\* C12: settling a live auction that has bids completes it with an endTime,
\* marks the player Sold to the team of the last bid at the amount of the last
\* bid, lowers that team's remainingPurse by exactly that amount, appends the
\* player to that team's roster and adds one win activity.
C12_SettlementWithLeader ==
    \A a \in DOMAIN auctions :
        (isLive(a) /\ auctions[a].bids # << >>) =>
            LET r == completeAuction(Store, a, now)
                b == lastOf(auctions[a].bids)
                p == auctions[a].playerId
            IN /\ r.success
               /\ r.st.auctions[a].status = "completed"
               /\ r.st.auctions[a].endTime = now
               /\ r.st.players[p].status = "Sold"
               /\ r.st.players[p].teamId = b.teamId
               /\ r.st.players[p].soldPrice = b.amount
               /\ r.st.teams[b.teamId].remainingPurse =
                     teams[b.teamId].remainingPurse - b.amount
               /\ r.st.teams[b.teamId].players = Append(teams[b.teamId].players, p)
               /\ Len(r.st.activities) = Len(activities) + 1
               /\ r.st.activities[1] = [type |-> "win", teamId |-> b.teamId,
                                        playerId |-> p, amount |-> b.amount]

\* a settlement has just recorded a win for a team that already held a player
C12_Witness ==
    /\ last.op = "completeAuction"
    /\ last.success
    /\ activities[1].type = "win"
    /\ Len(teams[activities[1].teamId].players) = 2

\* C13: settling a live auction without bids completes it, returns the player
\* to Unsold with no teamId and no soldPrice, leaves every team as it was and
\* adds exactly one auction_end activity; createAuction followed at once by
\* completeAuction leaves all teams and the player's sale fields as they were.
C13_SettlementWithoutBids ==
    /\ \A a \in DOMAIN auctions :
          (isLive(a) /\ auctions[a].bids = << >>) =>
              LET r == completeAuction(Store, a, now)
                  p == auctions[a].playerId
              IN /\ r.success
                 /\ r.st.auctions[a].status = "completed"
                 /\ r.st.players[p].status = "Unsold"
                 /\ r.st.players[p].teamId = Undefined
                 /\ r.st.players[p].soldPrice = Undefined
                 /\ r.st.teams = teams
                 /\ Len(r.st.activities) = Len(activities) + 1
                 /\ r.st.activities[1].type = "auction_end"
                 /\ r.st.activities[1].playerId = p
    /\ \A p \in PlayerArgs :
          LET c == createAuction(Store, p, now)
              r == completeAuction(c.st, c.auctionId, now)
          IN c.success =>
                /\ r.success
                /\ r.st.teams = teams
                /\ r.st.players = players

\* an auction has just been settled without bids while a team holds a player
C13_Witness ==
    /\ last.op = "completeAuction"
    /\ last.success
    /\ activities[1].type = "auction_end"
    /\ \E t \in DOMAIN teams : Len(teams[t].players) >= 1

\* C14: createAuction succeeds exactly when the player exists and is Unsold;
\* on success the store holds a live auction for that player with currentBid
\* equal to the base price, no bids and no currentBidder, and the player is
\* Live; otherwise nothing is created and auctions, players, teams and
\* activities stay as they were.
C14_CreateAuctionContract ==
    \A p \in PlayerArgs :
        LET r == createAuction(Store, p, now)
        IN /\ r.success <=> (p \in DOMAIN players /\ players[p].status = "Unsold")
           /\ r.success =>
                 LET au == r.st.auctions[r.auctionId]
                 IN /\ au.status = "live"
                    /\ au.playerId = p
                    /\ au.currentBid = players[p].basePrice
                    /\ au.bids = << >>
                    /\ au.currentBidder = Undefined
                    /\ r.st.players[p].status = "Live"
                    /\ \A q \in DOMAIN players \ {p} : r.st.players[q] = players[q]
                    /\ r.st.teams = teams
           /\ ~r.success => r.st = Store

\* a createAuction call has just been turned away while one player is Live
\* and the other is Sold
C14_Witness ==
    /\ last.op = "createAuction"
    /\ ~last.success
    /\ \E p \in DOMAIN players : players[p].status = "Live"
    /\ \E p \in DOMAIN players : players[p].status = "Sold"

\* C15: completed is terminal: an auction whose status is completed keeps its
\* status, bids, currentBid, currentBidder and endTime in every later state,
\* every placeBid on it is answered as not active, every completeAuction on it
\* is rejected, and no auction ever has status upcoming.
C15_CompletedIsTerminal ==
    [][\A a \in DOMAIN auctions :
          /\ auctions[a].status # "upcoming"
          /\ auctions[a].status = "completed" =>
                /\ a \in DOMAIN auctions'
                /\ auctions'[a].status = "completed"
                /\ auctions'[a].bids = auctions[a].bids
                /\ auctions'[a].currentBid = auctions[a].currentBid
                /\ auctions'[a].currentBidder = auctions[a].currentBidder
                /\ auctions'[a].endTime = auctions[a].endTime
                /\ \A t \in TeamArgs, m \in BidAmounts :
                      placeBid(Store, a, t, m).error = ErrNotLive
                /\ ~completeAuction(Store, a, now).success]_vars

\* the live auctions of the store that reference player p
liveAuctionsOf(p) ==
    {a \in DOMAIN auctions : auctions[a].status = "live" /\ auctions[a].playerId = p}

\* C16: in every reachable state a player has status Live if and only if
\* exactly one live auction references that player.
C16_OneLiveAuctionPerPlayer ==
    \A p \in DOMAIN players :
        (players[p].status = "Live") <=> (Cardinality(liveAuctionsOf(p)) = 1)

\* the activity log holds an auction_end entry for player p
wentUnsold(p) ==
    \E i \in 1..Len(activities) :
        activities[i].type = "auction_end" /\ activities[i].playerId = p

\* an optional field holds a value (a number or a string)
isDefined(x) == ToString(x) # ToString(Undefined)

\* C17: in every reachable state a player's soldPrice and teamId are defined
\* if and only if the player's status is Sold; an Unsold or Live player,
\* also one returned to Unsold after an auction without bids, has neither.
C17_SoldFields ==
    \A p \in DOMAIN players :
        /\ isDefined(players[p].soldPrice) <=> (players[p].status = "Sold")
        /\ isDefined(players[p].teamId) <=> (players[p].status = "Sold")

\* one player is Sold, the other is Unsold again after an auction without bids
C17_Witness ==
    \E p, q \in DOMAIN players :
        /\ players[p].status = "Sold"
        /\ players[q].status = "Unsold"
        /\ wentUnsold(q)

\* C18: a player changes only by Unsold -> Live in a successful createAuction,
\* Live -> Sold in a settlement with a leading bidder, or Live -> Unsold in a
\* settlement without bids; a Sold player never changes again and
\* createAuction for it is rejected, while createAuction for an Unsold
\* player, also one returned to Unsold, succeeds.
C18_PlayerTransitions ==
    [][\A p \in DOMAIN players :
          /\ players[p].status = "Sold" =>
                /\ players'[p] = players[p]
                /\ ~createAuction(Store, p, now).success
          /\ players[p].status = "Unsold" => createAuction(Store, p, now).success
          /\ players'[p] # players[p] =>
                \/ /\ players[p].status = "Unsold"
                   /\ players'[p].status = "Live"
                   /\ last'.op = "createAuction" /\ last'.success
                \/ /\ players[p].status = "Live"
                   /\ players'[p].status = "Sold"
                   /\ last'.op = "completeAuction" /\ last'.success
                   /\ \E a \in liveAuctionsOf(p) :
                         /\ auctions[a].bids # << >>
                         /\ auctions'[a].status = "completed"
                \/ /\ players[p].status = "Live"
                   /\ players'[p].status = "Unsold"
                   /\ last'.op = "completeAuction" /\ last'.success
                   /\ \E a \in liveAuctionsOf(p) :
                         /\ auctions[a].bids = << >>
                         /\ auctions'[a].status = "completed"]_vars

\* a player returned to Unsold is in a live auction again, the other is Sold
C18_Witness ==
    \E p, q \in DOMAIN players :
        /\ players[p].status = "Live"
        /\ wentUnsold(p)
        /\ players[q].status = "Sold"

\* C19: in every reachable state every team's roster length is at most its
\* maxPlayers.
C19_RosterLimit ==
    \A t \in DOMAIN teams : Len(teams[t].players) <= teams[t].maxPlayers

\* the number of activities added so far in a season run: three for every
\* settled auction, one or two for the auction under way
seasonAdded ==
    3 * (now - 1) +
       (IF now \notin DOMAIN auctions THEN 0
        ELSE IF auctions[now].status = "completed" THEN 3
        ELSE IF auctions[now].bids = << >> THEN 1
        ELSE 2)

\* the i-th activity added in a season run
seasonEntry(i) ==
    LET p == ((i - 1) \div 3) + 1
        k == (i - 1) % 3
    IN  IF k = 0 THEN [type |-> "auction_start", teamId |-> Undefined,
                       playerId |-> p, amount |-> Undefined]
        ELSE IF k = 1 THEN [type |-> "bid", teamId |-> SeasonTeam,
                            playerId |-> p, amount |-> seasonBasePrice + 1]
        ELSE [type |-> "win", teamId |-> SeasonTeam,
              playerId |-> p, amount |-> seasonBasePrice + 1]

\* two log entries are the same activity
sameEntry(x, y) ==
    /\ x.type = y.type
    /\ x.playerId = y.playerId
    /\ x.teamId = y.teamId
    /\ ToString(x.amount) = ToString(y.amount)

\* C20: in every reachable state the activity log holds at most 100 entries,
\* newest first, and equals the most recent min(n, 100) of the n activities
\* ever added: a new entry goes to the head and, once the log is full, exactly
\* the oldest entry is evicted.
C20_BoundedActivityLog ==
    /\ Len(activities) <= ActivityCap
    /\ Len(activities) = IF seasonAdded < ActivityCap THEN seasonAdded ELSE ActivityCap
    /\ \A i \in 1..Len(activities) :
          sameEntry(activities[i], seasonEntry(seasonAdded - i + 1))

\* more than two activities beyond the capacity have been added
C20_Witness ==
    /\ Len(activities) = ActivityCap
    /\ seasonAdded > ActivityCap + 2

\* the log after one entry was added in front of log (below capacity)
addedInFront(after, log) ==
    /\ Len(after) = Len(log) + 1
    /\ SubSeq(after, 2, Len(after)) = log

\* C21: every successful createAuction adds exactly one auction_start
\* activity, every accepted placeBid exactly one bid activity with that team,
\* player and amount, every successful completeAuction exactly one win (with
\* bids) or auction_end (without) activity; a rejected call adds none.
C21_OneActivityPerTransition ==
    /\ \A p \in PlayerArgs :
          LET r == createAuction(Store, p, now)
          IN IF r.success
             THEN /\ addedInFront(r.st.activities, activities)
                  /\ r.st.activities[1].type = "auction_start"
                  /\ r.st.activities[1].playerId = p
             ELSE r.st.activities = activities
    /\ \A a \in AuctionIds, t \in TeamArgs, m \in BidAmounts :
          LET r == placeBid(Store, a, t, m)
          IN IF r.success
             THEN /\ addedInFront(r.st.activities, activities)
                  /\ r.st.activities[1] = [type |-> "bid", teamId |-> t,
                                           playerId |-> auctions[a].playerId,
                                           amount |-> m]
             ELSE r.st.activities = activities
    /\ \A a \in AuctionIds :
          LET r == completeAuction(Store, a, now)
          IN IF r.success
             THEN /\ addedInFront(r.st.activities, activities)
                  /\ r.st.activities[1].type =
                        (IF auctions[a].bids # << >> THEN "win" ELSE "auction_end")
                  /\ r.st.activities[1].playerId = auctions[a].playerId
             ELSE r.st.activities = activities

\* the log holds an activity of each of the four types
C21_Witness ==
    \A ty \in {"auction_start", "bid", "win", "auction_end"} :
        \E i \in 1..Len(activities) : activities[i].type = ty

\* C26: every successful createAuction stores the new auction under an id no
\* stored auction has: the number of stored auctions grows by one and no
\* stored auction is replaced, also for two calls at one clock value.
C26_UniqueAuctionIds ==
    \A p \in PlayerArgs :
        LET r == createAuction(Store, p, now)
        IN r.success =>
              /\ r.auctionId \notin DOMAIN auctions
              /\ Cardinality(DOMAIN r.st.auctions) = Cardinality(DOMAIN auctions) + 1
              /\ \A a \in DOMAIN auctions : r.st.auctions[a] = auctions[a]

\* the store while a placeBid call on auction a is between taking and
\* releasing the lock
duringBidOn(a) == [Store EXCEPT !.bidLocks = acquireLock(@, a)]

\* C27: a placeBid or completeAuction on auction a leaves every other
\* auction b as it was, and a placeBid on b is not answered with the
\* bid-in-progress error while a bid on a holds a's lock.
C27_AuctionsIndependent ==
    \A a \in AuctionIds : \A b \in DOMAIN auctions \ {a} :
        /\ completeAuction(Store, a, now).st.auctions[b] = auctions[b]
        /\ \A t \in TeamArgs, m \in BidAmounts :
              /\ placeBid(Store, a, t, m).st.auctions[b] = auctions[b]
              /\ placeBid(duringBidOn(a), b, t, m).error = placeBid(Store, b, t, m).error

\* two live auctions, one with a bid just accepted, the other without bids
C27_Witness ==
    /\ last.op = "placeBid"
    /\ last.success
    /\ \E a, b \in DOMAIN auctions :
          /\ isLive(a) /\ isLive(b)
          /\ Len(auctions[a].bids) = 1
          /\ auctions[b].bids = << >>

\* C29: 'Mark as Unsold' on a live auction completes it with the player
\* Unsold and every team's purse and roster as before, with or without a
\* leading bidder.
C29_MarkAsUnsold ==
    \A a \in DOMAIN auctions :
        isLive(a) =>
            LET r == markAsUnsold(Store, a, now)
            IN /\ r.success
               /\ r.st.auctions[a].status = "completed"
               /\ r.st.players[auctions[a].playerId].status = "Unsold"
               /\ r.st.teams = teams

\* the number of times player p appears in the roster of team t
rosterCount(t, p) ==
    Cardinality({i \in 1..Len(teams[t].players) : teams[t].players[i] = p})

RECURSIVE rosterTotal(_)
\* the total length of the rosters of the teams in ts
rosterTotal(ts) ==
    IF ts = {} THEN 0
    ELSE LET t == CHOOSE x \in ts : TRUE
         IN Len(teams[t].players) + rosterTotal(ts \ {t})

\* C30: in every reachable state a Sold player appears exactly once in the
\* roster of the team named by its teamId and in no other roster, an Unsold
\* or Live player appears in no roster, and the number of Sold players equals
\* the total length of all rosters.
C30_RosterMembership ==
    /\ \A p \in DOMAIN players : \A t \in DOMAIN teams :
          rosterCount(t, p) =
             (IF players[p].status = "Sold" /\ players[p].teamId = t THEN 1 ELSE 0)
    /\ \A p \in DOMAIN players :
          players[p].status = "Sold" => players[p].teamId \in DOMAIN teams
    /\ Cardinality({p \in DOMAIN players : players[p].status = "Sold"})
          = rosterTotal(DOMAIN teams)

\* both players are Sold, to different teams
C30_Witness ==
    \E p, q \in DOMAIN players :
        /\ players[p].status = "Sold" /\ players[q].status = "Sold"
        /\ players[p].teamId # players[q].teamId

\* C25: when the server rejects a bid the client had applied optimistically
\* to its cached auction, the cached auction is rolled back to the snapshot
\* taken before the optimistic update.
C25_OptimisticRollback ==
    client.phase = "rejected" => client.cache = client.previous

\* C22: every timer_update of a stream carries timerDuration minus the whole
\* seconds elapsed since the auction's startTime, and the stream's timer
\* settles the auction when that elapsed time reaches timerDuration, whenever
\* the observer connected.
C22_CountdownFromStartTime ==
    \A i \in DOMAIN streams :
        LET s == streams[i]
            auction == captured(s)
        IN s.timerAt > 0 =>
              /\ s.timeRemaining =
                    auction.timerDuration - (s.timerAt - auction.startTime)
              /\ s.closedBy = "timer" =>
                    s.timerAt - auction.startTime = auction.timerDuration

\* stream i observes the auction it fetched, which is live
observesLive(i) ==
    /\ i \in DOMAIN streams
    /\ streams[i].open
    /\ captured(streams[i]).status = "live"

\* stream i was aborted, or its auction is completed and the stream has sent
\* auction_end as its last event and is closed
endedOrAborted(i) ==
    /\ i \in DOMAIN streams
    /\ \/ streams[i].closedBy = "abort"
       \/ /\ captured(streams[i]).status = "completed"
          /\ streams[i].lastEvent = "auction_end"
          /\ ~streams[i].open

\* C23: a live auction observed by an open stream that is never aborted
\* eventually is completed, and that stream eventually emits auction_end and
\* is closed.
C23_AutomaticCompletion ==
    \A i \in StreamIds : observesLive(i) ~> endedOrAborted(i)

\* the bids of view v are the first bids of view w
bidsGrow(v, w) ==
    /\ Len(v.bids) <= Len(w.bids)
    /\ SubSeq(w.bids, 1, Len(v.bids)) = v.bids

\* C24: the auction states carried by successive events of one stream never
\* go backwards: currentBid is non-decreasing and the bid list only grows.
C24_NeverBackwards ==
    [][\A i \in DOMAIN streams :
          /\ streams'[i].sent.currentBid >= streams[i].sent.currentBid
          /\ bidsGrow(streams[i].sent, streams'[i].sent)]_vars

\* C24 (delivery): a bid accepted on an observed auction eventually reaches
\* every stream of that auction that is not aborted, in an event whose
\* currentBid is at least the accepted amount.
C24_BidsReachObservers ==
    \A i \in StreamIds : \A m \in BidAmounts :
        (/\ observesLive(i)
         /\ captured(streams[i]).bids # << >>
         /\ captured(streams[i]).currentBid >= m)
        ~> (/\ i \in DOMAIN streams
            /\ \/ streams[i].closedBy = "abort"
               \/ streams[i].sent.currentBid >= m)

\* C28: a stream emits at most one auction_end; once emitted it is the last
\* event, the stream is closed, and the auction carried has status completed.
C28_StreamEndProtocol ==
    \A i \in DOMAIN streams :
        LET s == streams[i]
        IN /\ s.ended <= 1
           /\ s.ended = 1 =>
                 /\ s.lastEvent = "auction_end"
                 /\ ~s.open
                 /\ s.endStatus = "completed"
           /\ s.lastEvent = "auction_end" => s.ended = 1
           /\ ~s.open => s.closedBy \in {"timer", "poll", "abort"}

====
